---- MODULE Spec2Model ----
(***************************************************************************)
(* Model of the inventory service (src/main.go): the table "inventories",  *)
(* the HTTP handlers that write it, and the Kafka consumer loop            *)
(* consumeOrderCreated with its two producers.                             *)
(*                                                                         *)
(* The consumer loop is one goroutine; it is modelled as a process whose   *)
(* position pc is the next blocking call it makes (ReadMessage, the SELECT,*)
(* the UPDATE, WriteMessages).  Each HTTP handler issues one SQL statement *)
(* and is one action.  The HTTP handlers run concurrently with the loop.   *)
(***************************************************************************)
EXTENDS Integers, Sequences, FiniteSets, TLC

\* ---------------------------------------------------------------- bounds
MaxLog == 2          \* messages the upstream service appends to "orders"
MaxHttp == 1         \* HTTP write requests (POST / PUT) served
MaxFaults == 1       \* calls of the loop (read, store, publish) that return an error

\* ------------------------------------------------------------ input sets
Products == {1, 2}
OrderIds == 1..MaxLog
EventQtys == {-1, 1}          \* "quantity" of an order event
HttpQtys == {-1, 0, 1}        \* "quantity" of an HTTP body
StockQtys == {0, 1, 2}        \* quantities of the rows present at startup

NoEvent == [OrderID |-> 0, ProductID |-> 0, Quantity |-> 0]
NoPending == [writer |-> "none", OrderID |-> 0, Status |-> "", Message |-> ""]

\* A message value on topic "orders".  wellFormed = FALSE stands for a body
\* json.Unmarshal rejects (e.g. "quantity":"abc"); the other fields are then
\* meaningless and fixed to 0.
Payloads ==
    [wellFormed : {TRUE}, orderId : OrderIds, productId : Products, quantity : EventQtys]
    \cup {[wellFormed |-> FALSE, orderId |-> 0, productId |-> 0, quantity |-> 0]}

VARIABLES
    inventories,   \* table inventories: a function product_id -> quantity whose
                   \* domain is the set of product_ids that have a row
    orders,        \* topic "orders": sequence of payloads
    offset,        \* reader position: messages of "orders" already returned
    committed,     \* offset committed for group "inventory-service-group"
    pc,            \* consumer loop position: "read","select","update","publish"
    event,         \* local variable event of the current iteration
    quantity,      \* local variable quantity of the current iteration
    pending,       \* arguments of the publish call in progress
    topicReserved, \* topic "inventory-reserved": sequence of outcome events
    topicFailed,   \* topic "inventory-failed": sequence of outcome events
    httpCount,     \* HTTP write requests served so far
    initial,       \* the table as it was when the service started
    updated_at,    \* column updated_at of table inventories: product_id -> time
    faults,        \* calls of the loop that have returned an error so far
    trace          \* history of the loop's steps, one record per step

vars == <<inventories, orders, offset, committed, pc, event, quantity, pending,
          topicReserved, topicFailed, httpCount, initial, updated_at, faults, trace>>

consumerVars == <<offset, committed, pc, event, quantity, pending,
                  topicReserved, topicFailed, faults, trace>>

\* --------------------------------------------------------------- helpers
HasRow(table, p) == p \in DOMAIN table

\* INSERT of one row
Insert(table, p, q) == [x \in DOMAIN table \cup {p} |-> IF x = p THEN q ELSE table[x]]

\* Unmarshal with its error dropped: the event keeps its zero values
UnmarshalNoErr(m) ==
    IF m.wellFormed
    THEN [err |-> FALSE,
          event |-> [OrderID |-> m.orderId, ProductID |-> m.productId,
                     Quantity |-> m.quantity]]
    ELSE [err |-> FALSE, event |-> NoEvent]

\* json.Unmarshal(m.Value, &event)
Unmarshal(m) ==
    IF m.wellFormed
    THEN [err |-> FALSE,
          event |-> [OrderID |-> m.orderId, ProductID |-> m.productId,
                     Quantity |-> m.quantity]]
    ELSE [err |-> TRUE, event |-> NoEvent]

\* publishInventoryReserved(orderID, message): the event it builds and the
\* writer it uses
ReservedEvent(orderID, message) ==
    [writer |-> "reserved", OrderID |-> orderID, Status |-> "RESERVED",
     Message |-> message]

\* publishInventoryFailed writing through writerReserved
FailedEventWrongWriter(orderID, message) ==
    [writer |-> "reserved", OrderID |-> orderID, Status |-> "FAILED",
     Message |-> message]

\* publishInventoryFailed(orderID, message)
FailedEvent(orderID, message) ==
    [writer |-> "failed", OrderID |-> orderID, Status |-> "FAILED",
     Message |-> message]

\* the JSON value written to the topic
Wire(p) == [orderId |-> p.OrderID, status |-> p.Status, message |-> p.Message]

\* one record of the history: delivery k (its offset in "orders") took step
\* `step`; q is the quantity the SELECT scanned, p the publish call's arguments
Step(k, step, q, p) ==
    [k |-> k, step |-> step, q |-> q, writer |-> p.writer, orderId |-> p.OrderID,
     status |-> p.Status, message |-> p.Message]

\* whether the call in progress returns an error
Inject(err) ==
    /\ err => faults < MaxFaults
    /\ faults' = IF err THEN faults + 1 ELSE faults

\* ------------------------------------------------------------------ Init
Start(table) ==
    /\ inventories = table
    /\ initial = table
    /\ updated_at = [p \in DOMAIN table |-> 0]
    /\ orders = <<>>
    /\ offset = 0
    /\ committed = 0
    /\ pc = "read"
    /\ event = NoEvent
    /\ quantity = 0
    /\ pending = NoPending
    /\ topicReserved = <<>>
    /\ topicFailed = <<>>
    /\ httpCount = 0
    /\ faults = 0
    /\ trace = <<>>

\* the service starts on a table that holds product 1 and not product 2
InitTables == {[x \in {1} |-> q] : q \in {2}}

Init == \E table \in InitTables : Start(table)

\* the service starts on a table that already holds every product
InitSeq == \E table \in [Products -> StockQtys] : Start(table)

\* ---------------------------------------------------------- HTTP handlers
\* time.Now(): a logical clock that ticks with every HTTP request served; the
\* rows present at startup carry time 0
Now == httpCount + 1

\* POST /inventory: INSERT INTO inventories (product_id, quantity, updated_at)
createInventory(p, q) ==
    /\ httpCount < MaxHttp
    /\ httpCount' = httpCount + 1
    /\ IF HasRow(inventories, p)
       THEN UNCHANGED <<inventories, updated_at>>          \* duplicate key: 400
       ELSE /\ inventories' = Insert(inventories, p, q)
            /\ updated_at' = Insert(updated_at, p, Now)
    /\ UNCHANGED <<orders, initial, consumerVars>>

\* PUT /inventory/{product_id}: UPDATE inventories SET quantity = $1 ...
updateInventory(p, q) ==
    /\ httpCount < MaxHttp
    /\ httpCount' = httpCount + 1
    /\ IF HasRow(inventories, p)
       THEN /\ inventories' = [inventories EXCEPT ![p] = q]
            /\ updated_at' = [updated_at EXCEPT ![p] = Now]
       ELSE UNCHANGED <<inventories, updated_at>>          \* no row matches: 200
    /\ UNCHANGED <<orders, initial, consumerVars>>

\* GET /inventory/{product_id}: one SELECT, no write
getInventory(p) ==
    /\ httpCount < MaxHttp
    /\ httpCount' = httpCount + 1
    /\ UNCHANGED <<inventories, updated_at, orders, initial, consumerVars>>

\* ------------------------------------------------------------- the router
Methods == {"GET", "POST", "PUT", "OPTIONS"}

\* request paths: /inventory/{id}, /inventory, and a path no route has
Paths ==
    {[route |-> "item", id |-> p] : p \in Products}
    \cup {[route |-> "collection", id |-> 0], [route |-> "other", id |-> 0]}

Bodies == [product_id : Products, quantity : HttpQtys]
EmptyBody == [product_id |-> 0, quantity |-> 0]

\* r.HandleFunc(...).Methods(...), in registration order
Routes ==
    <<[route |-> "item", method |-> "GET", handler |-> "getInventory"],
      [route |-> "item", method |-> "PUT", handler |-> "updateInventory"],
      [route |-> "collection", method |-> "POST", handler |-> "createInventory"]>>

CrudHandlers == {"getInventory", "updateInventory", "createInventory"}

\* mux.Router: a route whose path and method match gets the handler wrapped in
\* the middlewares of r.Use; a path that matches with another method gets the
\* router's 405 handler and no path match gets r.NotFoundHandler, both without
\* the middlewares
Match(method, path) ==
    IF \E n \in 1..Len(Routes) : Routes[n].route = path.route /\ Routes[n].method = method
    THEN LET n == CHOOSE x \in 1..Len(Routes) :
                      Routes[x].route = path.route /\ Routes[x].method = method IN
         [handler |-> Routes[n].handler, middleware |-> TRUE]
    ELSE IF \E n \in 1..Len(Routes) : Routes[n].route = path.route
    THEN [handler |-> "methodNotAllowed", middleware |-> FALSE]
    ELSE [handler |-> "notFound", middleware |-> FALSE]

\* the status the handler writes
HandlerStatus(handler, path, body, table) ==
    CASE handler = "getInventory" -> IF HasRow(table, path.id) THEN 200 ELSE 404
      [] handler = "createInventory" -> IF HasRow(table, body.product_id) THEN 400 ELSE 201
      [] handler = "updateInventory" -> 200
      [] handler = "methodNotAllowed" -> 405
      [] OTHER -> 404

\* the response to a request: the handler that ran ("" when corsMiddleware
\* answered the preflight itself), the status, and Access-Control-Allow-Origin
Response(method, path, body, table) ==
    LET m == Match(method, path)
        preflight == m.middleware /\ method = "OPTIONS" IN
    [handler |-> IF preflight THEN "" ELSE m.handler,
     status |-> IF preflight THEN 204 ELSE HandlerStatus(m.handler, path, body, table),
     cors |-> IF m.middleware \/ m.handler = "notFound" THEN "*" ELSE ""]

\* the requests: a body only where a handler decodes one
Requests ==
    {r \in [method : Methods, path : Paths, body : Bodies \cup {EmptyBody}] :
        (r.body # EmptyBody) =
            (Match(r.method, r.path).handler \in {"createInventory", "updateInventory"})}

\* http.ListenAndServe(":8086", r): one request served
ServeHTTP(req) ==
    LET h == Response(req.method, req.path, req.body, inventories).handler IN
    \/ h = "createInventory" /\ createInventory(req.body.product_id, req.body.quantity)
    \/ h = "updateInventory" /\ updateInventory(req.path.id, req.body.quantity)
    \/ h = "getInventory" /\ getInventory(req.path.id)
    \/ /\ h \notin CrudHandlers
       /\ httpCount < MaxHttp
       /\ httpCount' = httpCount + 1
       /\ UNCHANGED <<inventories, updated_at, orders, initial, consumerVars>>

\* ------------------------------------------------- upstream order service
\* the orderId the upstream service gives its next new order
RECURSIVE MaxOrderId(_)
MaxOrderId(log) ==
    IF log = <<>> THEN 0
    ELSE LET rest == MaxOrderId(Tail(log)) IN
         IF Head(log).orderId > rest THEN Head(log).orderId ELSE rest

\* a new message on "orders": a new order, or a body that does not parse
ProduceOrder(m) ==
    /\ Len(orders) < MaxLog
    /\ m.wellFormed => m.orderId = MaxOrderId(orders) + 1
    /\ orders' = Append(orders, m)
    /\ UNCHANGED <<inventories, httpCount, initial, updated_at, consumerVars>>

\* at-least-once delivery: the event at position k is appended once more
RedeliverOrder(k) ==
    /\ Len(orders) < MaxLog
    /\ orders[k].wellFormed
    /\ orders' = Append(orders, orders[k])
    /\ UNCHANGED <<inventories, httpCount, initial, updated_at, consumerVars>>

\* ------------------------------------------------------ the consumer loop
\* ReadMessage called without waiting for the publish call to return
ReadMessageEarly(err) ==
    /\ pc \in {"read", "publish"}
    /\ Inject(err)
    /\ IF err
       THEN UNCHANGED <<offset, committed, pc, event, quantity, pending, trace>>
       ELSE /\ offset < Len(orders)
            /\ offset' = offset + 1
            /\ committed' = offset + 1
            /\ quantity' = 0
            /\ pending' = NoPending
            /\ LET u == Unmarshal(orders[offset + 1]) IN
               IF u.err
               THEN /\ pc' = "read"
                    /\ event' = NoEvent
                    /\ trace' = Append(trace, Step(offset + 1, "skip", 0, NoPending))
               ELSE /\ pc' = "select"
                    /\ event' = u.event
                    /\ trace' = Append(trace, Step(offset + 1, "read", 0, NoPending))
    /\ UNCHANGED <<inventories, orders, topicReserved, topicFailed, httpCount, initial, updated_at>>

\* ReadMessage with a read error ending the loop
ReadMessageFatal(err) ==
    /\ pc = "read"
    /\ Inject(err)
    /\ IF err
       THEN /\ pc' = "exit"
            /\ UNCHANGED <<offset, committed, event, trace>>
       ELSE /\ offset < Len(orders)
            /\ offset' = offset + 1
            /\ committed' = offset + 1
            /\ LET u == Unmarshal(orders[offset + 1]) IN
               IF u.err
               THEN /\ pc' = "read"
                    /\ event' = NoEvent
                    /\ trace' = Append(trace, Step(offset + 1, "skip", 0, NoPending))
               ELSE /\ pc' = "select"
                    /\ event' = u.event
                    /\ trace' = Append(trace, Step(offset + 1, "read", 0, NoPending))
    /\ UNCHANGED <<inventories, orders, quantity, pending,
                   topicReserved, topicFailed, httpCount, initial, updated_at>>

\* r.ReadMessage: with a GroupID the reader commits the offset of the message
\* it returns before returning it.
ReadMessage(err) ==
    /\ pc = "read"
    /\ Inject(err)
    /\ IF err
       THEN UNCHANGED <<offset, committed, pc, event, trace>>   \* log and continue
       ELSE /\ offset < Len(orders)
            /\ offset' = offset + 1
            /\ committed' = offset + 1
            /\ LET u == Unmarshal(orders[offset + 1]) IN
               IF u.err
               THEN /\ pc' = "read"
                    /\ event' = NoEvent
                    /\ trace' = Append(trace, Step(offset + 1, "skip", 0, NoPending))
               ELSE /\ pc' = "select"
                    /\ event' = u.event
                    /\ trace' = Append(trace, Step(offset + 1, "read", 0, NoPending))
    /\ UNCHANGED <<inventories, orders, quantity, pending,
                   topicReserved, topicFailed, httpCount, initial, updated_at>>

\* the branch with > for >=
EnoughStrict(qty, amount) == qty > amount

\* the branch taken on the scanned quantity
Enough(qty, amount) == qty >= amount

\* SelectQuantity with the error of Scan ignored: quantity keeps its zero value
SelectQuantityNoErrCheck(dbErr) ==
    /\ pc = "select"
    /\ Inject(dbErr)
    /\ LET row == IF dbErr \/ ~HasRow(inventories, event.ProductID)
                  THEN 0 ELSE inventories[event.ProductID]
           kind == IF dbErr THEN "selectErr"
                   ELSE IF ~HasRow(inventories, event.ProductID) THEN "selectNoRow"
                   ELSE "selectOk" IN
       /\ quantity' = row
       /\ trace' = Append(trace, Step(offset, kind, row, NoPending))
       /\ IF row >= event.Quantity
          THEN pc' = "update" /\ pending' = NoPending
          ELSE /\ pc' = "publish"
               /\ pending' = FailedEvent(event.OrderID, "Not enough stock")
    /\ UNCHANGED <<inventories, orders, offset, committed, event,
                   topicReserved, topicFailed, httpCount, initial, updated_at>>

\* db.QueryRow(SELECT quantity ...).Scan(&quantity) and the branch on it
SelectQuantity(dbErr) ==
    /\ pc = "select"
    /\ Inject(dbErr)
    /\ IF dbErr \/ ~HasRow(inventories, event.ProductID)
       THEN /\ pending' = FailedEvent(event.OrderID, "Product not found")
            /\ pc' = "publish"
            /\ quantity' = 0
            /\ trace' = Append(trace,
                   Step(offset, IF dbErr THEN "selectErr" ELSE "selectNoRow", 0, NoPending))
       ELSE LET row == inventories[event.ProductID] IN
            /\ quantity' = row
            /\ trace' = Append(trace, Step(offset, "selectOk", row, NoPending))
            /\ IF Enough(row, event.Quantity)
               THEN pc' = "update" /\ pending' = NoPending
               ELSE /\ pc' = "publish"
                    /\ pending' = FailedEvent(event.OrderID, "Not enough stock")
    /\ UNCHANGED <<inventories, orders, offset, committed, event,
                   topicReserved, topicFailed, httpCount, initial, updated_at>>

\* the UPDATE without its WHERE clause
DecrementAll(table, p, amount) == [x \in DOMAIN table |-> table[x] - amount]

\* UPDATE inventories SET quantity = quantity - $1 WHERE product_id = $2
\* (the statement does not set updated_at)
Decrement(table, p, amount) ==
    IF HasRow(table, p) THEN [table EXCEPT ![p] = @ - amount] ELSE table

\* ExecUpdate with the error of db.Exec ignored
ExecUpdateIgnoreErr(dbErr) ==
    /\ pc = "update"
    /\ Inject(dbErr)
    /\ IF dbErr
       THEN /\ trace' = Append(trace, Step(offset, "updateErr", quantity, NoPending))
            /\ UNCHANGED inventories
       ELSE /\ inventories' = Decrement(inventories, event.ProductID, event.Quantity)
            /\ trace' = Append(trace, Step(offset, "updateOk", quantity, NoPending))
    /\ pending' = ReservedEvent(event.OrderID, "Reserved successfully")
    /\ pc' = "publish"
    /\ UNCHANGED <<orders, offset, committed, event, quantity,
                   topicReserved, topicFailed, httpCount, initial, updated_at>>

\* ExecUpdate writing the value computed from the scanned quantity
ExecUpdateAbsolute(dbErr) ==
    /\ pc = "update"
    /\ Inject(dbErr)
    /\ IF dbErr
       THEN /\ pending' = FailedEvent(event.OrderID, "Cannot reserve inventory")
            /\ trace' = Append(trace, Step(offset, "updateErr", quantity, NoPending))
            /\ UNCHANGED inventories
       ELSE /\ inventories' = [inventories EXCEPT ![event.ProductID] = quantity - event.Quantity]
            /\ pending' = ReservedEvent(event.OrderID, "Reserved successfully")
            /\ trace' = Append(trace, Step(offset, "updateOk", quantity, NoPending))
    /\ pc' = "publish"
    /\ UNCHANGED <<orders, offset, committed, event, quantity,
                   topicReserved, topicFailed, httpCount, initial, updated_at>>

ExecUpdate(dbErr) ==
    /\ pc = "update"
    /\ Inject(dbErr)
    /\ IF dbErr
       THEN /\ pending' = FailedEvent(event.OrderID, "Cannot reserve inventory")
            /\ trace' = Append(trace, Step(offset, "updateErr", quantity, NoPending))
            /\ UNCHANGED inventories
       ELSE /\ inventories' = Decrement(inventories, event.ProductID, event.Quantity)
            /\ pending' = ReservedEvent(event.OrderID, "Reserved successfully")
            /\ trace' = Append(trace, Step(offset, "updateOk", quantity, NoPending))
    /\ pc' = "publish"
    /\ UNCHANGED <<orders, offset, committed, event, quantity,
                   topicReserved, topicFailed, httpCount, initial, updated_at>>

\* writer.WriteMessages inside publishInventoryReserved / publishInventoryFailed;
\* its error is discarded and the loop goes on to the next iteration
WriteMessages(wErr) ==
    /\ pc = "publish"
    /\ Inject(wErr)
    /\ IF wErr
       THEN /\ trace' = Append(trace, Step(offset, "pubErr", 0, pending))
            /\ UNCHANGED <<topicReserved, topicFailed>>
       ELSE /\ trace' = Append(trace, Step(offset, "pubOk", 0, pending))
            /\ IF pending.writer = "reserved"
               THEN /\ topicReserved' = Append(topicReserved, Wire(pending))
                    /\ UNCHANGED topicFailed
               ELSE /\ topicFailed' = Append(topicFailed, Wire(pending))
                    /\ UNCHANGED topicReserved
    /\ pc' = "read"
    /\ event' = NoEvent
    /\ quantity' = 0
    /\ pending' = NoPending
    /\ UNCHANGED <<inventories, orders, offset, committed, httpCount, initial, updated_at>>

\* --------------------------------------------------------- specifications
Next ==
    \/ \E p \in Products, q \in HttpQtys : createInventory(p, q)
    \/ \E p \in Products, q \in HttpQtys : updateInventory(p, q)
    \/ \E m \in Payloads : ProduceOrder(m)
    \/ \E k \in 1..Len(orders) : RedeliverOrder(k)
    \/ \E e \in BOOLEAN : ReadMessage(e)
    \/ \E e \in BOOLEAN : SelectQuantity(e)
    \/ \E e \in BOOLEAN : ExecUpdate(e)
    \/ \E e \in BOOLEAN : WriteMessages(e)

Spec == Init /\ [][Next]_vars

\* The loop alone on a populated table: no HTTP request, no store or broker
\* error.
NextSeq ==
    \/ \E m \in Payloads : ProduceOrder(m)
    \/ \E k \in 1..Len(orders) : RedeliverOrder(k)
    \/ ReadMessage(FALSE)
    \/ SelectQuantity(FALSE)
    \/ ExecUpdate(FALSE)
    \/ WriteMessages(FALSE)

SpecSeq == InitSeq /\ [][NextSeq]_vars

\* the HTTP server alone, started on any table
InitHttp == \E D \in SUBSET Products : \E table \in [D -> StockQtys] : Start(table)

NextHttp == \E req \in Requests : ServeHTTP(req)

SpecHttp == InitHttp /\ [][NextHttp]_vars

TypeOK ==
    /\ pc \in {"read", "select", "update", "publish"}
    /\ offset \in 0..Len(orders)
    /\ committed = offset
    /\ Len(orders) <= MaxLog
    /\ DOMAIN inventories \subseteq Products
    /\ DOMAIN updated_at = DOMAIN inventories
    /\ \A p \in DOMAIN updated_at : updated_at[p] \in 0..httpCount
    /\ httpCount \in 0..MaxHttp
    /\ faults \in 0..MaxFaults
    /\ (pc = "publish") = (pending.writer # "none")
\* ------------------------------------------------- reading the history
Idx == 1..Len(trace)

\* the positions of the history where delivery k took a step of one of `kinds`
StepsOf(k, kinds) == {i \in Idx : trace[i].k = k /\ trace[i].step \in kinds}

\* the deliveries the loop has read and deserialized
Consumed == {k \in 1..offset : orders[k].wellFormed}

\* the UPDATE of delivery k committed
Decremented(k) == StepsOf(k, {"updateOk"}) # {}

\* the successful publishes of delivery k with the given status
PublishedAs(k, status) ==
    {i \in StepsOf(k, {"pubOk"}) : trace[i].status = status}

\* the publish call of delivery k has returned
Finished(k) == StepsOf(k, {"pubOk", "pubErr"}) # {}

\* ----------------------------------------------------------------- claims

\* C1: for every delivered order event, RESERVED is published for it only if
\* its store decrement has committed, and once its decrement has committed no
\* FAILED outcome is published for it.
C1_ReservedIffDecremented ==
    \A k \in Consumed :
        /\ PublishedAs(k, "RESERVED") # {} => Decremented(k)
        /\ Decremented(k) => PublishedAs(k, "FAILED") = {}
        /\ Len(topicReserved) =
             Cardinality({i \in Idx : trace[i].step = "pubOk" /\ trace[i].status = "RESERVED"})

C1_Witness ==
    \E k1, k2 \in Consumed :
        /\ Decremented(k1) /\ PublishedAs(k1, "RESERVED") # {}
        /\ ~Decremented(k2) /\ PublishedAs(k2, "FAILED") # {}

\* C2: the quantity of every stock record is >= 0 in every committed state of
\* the table.
C2_QuantityNonNegative ==
    \A p \in DOMAIN inventories : inventories[p] >= 0

\* C3: the reservation is one atomic conditional update: when the decrement
\* is about to be applied, the row still holds at least the ordered amount (no
\* other write took effect between the stock check and the decrement).
C3_AtomicConditionalDecrement ==
    pc = "update" =>
        /\ HasRow(inventories, event.ProductID)
        /\ inventories[event.ProductID] >= event.Quantity
\* C4: for every order event the loop has consumed and finished with, exactly
\* one outcome event has been published: never zero, never more than one.
C4_ExactlyOneOutcome ==
    \A k \in Consumed :
        (k < offset \/ pc = "read") => Cardinality(StepsOf(k, {"pubOk"})) = 1

\* C5: when the same order event is delivered more than once, its stock
\* decrement is applied at most once.
C5_DecrementAtMostOnce ==
    \A k1, k2 \in Consumed :
        (k1 < k2 /\ orders[k1] = orders[k2]) => ~(Decremented(k1) /\ Decremented(k2))

\* C6: the committed offset covers a message only after the outcome for that
\* message has been published.
C6_CommitAfterPublish ==
    \A k \in 1..committed :
        orders[k].wellFormed => StepsOf(k, {"pubOk"}) # {}

\* the steps at which the store decision of delivery k was made: the decrement
\* applied, or the reservation rejected
DecisionSteps(k) ==
    StepsOf(k, {"selectNoRow", "selectErr", "updateOk", "updateErr"})
    \cup {i \in StepsOf(k, {"selectOk"}) : ~(trace[i].q >= orders[k].quantity)}

SelectSteps == {"selectOk", "selectNoRow", "selectErr"}

\* C7: messages are processed strictly one at a time: when the stock read of
\* a delivery begins, the store decision and the publish call of every earlier
\* delivery have completed.
C7_OneAtATime ==
    \A j \in Idx :
        trace[j].step \in SelectSteps =>
            \A k1 \in Consumed :
                k1 < trace[j].k =>
                    /\ \E i \in DecisionSteps(k1) : i < j
                    /\ \E i \in StepsOf(k1, {"pubOk", "pubErr"}) : i < j

C7_Witness ==
    \E k1, k2 \in Consumed :
        /\ k1 < k2
        /\ orders[k1].productId = orders[k2].productId
        /\ Decremented(k1)
        /\ StepsOf(k2, SelectSteps) # {}
RECURSIVE SumAmounts(_)
\* the sum of the ordered amounts of a set of deliveries
SumAmounts(S) ==
    IF S = {} THEN 0
    ELSE LET k == CHOOSE x \in S : TRUE IN orders[k].quantity + SumAmounts(S \ {k})

\* the deliveries for product p whose RESERVED outcome has been published
ReservedFor(p) ==
    {k \in Consumed : orders[k].productId = p /\ PublishedAs(k, "RESERVED") # {}}

\* the loop has finished with delivery k
IterationEnded(k) == k < offset \/ pc = "read"

\* C8: with no concurrent HTTP write, an event whose amount is <= the current
\* quantity yields RESERVED and lowers the quantity by that amount, an event
\* whose amount is > the current quantity yields FAILED "Not enough stock" and
\* leaves the quantity unchanged, so that between iterations the quantity of a
\* product is its initial quantity minus the sum of the RESERVED amounts.
C8_SequentialReservation ==
    /\ \A k \in Consumed :
          IterationEnded(k) =>
              \E i \in StepsOf(k, {"selectOk"}) :
                  IF orders[k].quantity <= trace[i].q
                  THEN /\ Decremented(k)
                       /\ Cardinality(PublishedAs(k, "RESERVED")) = 1
                       /\ PublishedAs(k, "FAILED") = {}
                  ELSE /\ ~Decremented(k)
                       /\ PublishedAs(k, "RESERVED") = {}
                       /\ Cardinality(PublishedAs(k, "FAILED")) = 1
                       /\ \A j \in PublishedAs(k, "FAILED") :
                              trace[j].message = "Not enough stock"
    /\ pc = "read" =>
          \A p \in Products :
              inventories[p] = initial[p] - SumAmounts(ReservedFor(p))

\* two orders of 1 against quantity 1: one RESERVED, one FAILED, quantity 0
C8_Witness ==
    /\ pc = "read"
    /\ offset = 2
    /\ \E p \in Products :
          /\ initial[p] = 1
          /\ inventories[p] = 0
          /\ \A k \in 1..2 : orders[k].wellFormed /\ orders[k].productId = p
                             /\ orders[k].quantity = 1
          /\ PublishedAs(1, "RESERVED") # {}
          /\ PublishedAs(2, "FAILED") # {}

\* C9: an order event whose productID has no stock record yields the FAILED
\* outcome "Product not found" (handed to the failed writer, appended to the
\* failed topic when the write succeeds) and mutates no row of the table.
C9_ProductNotFound ==
    /\ [][(pc = "select" /\ pc' # "select" /\ ~HasRow(inventories, event.ProductID))
            => /\ pc' = "publish"
               /\ pending' = FailedEvent(event.OrderID, "Product not found")
               /\ inventories' = inventories]_vars
    /\ [][(pc = "publish" /\ pc' # "publish" /\ pending.Message = "Product not found")
            => /\ pc' = "read"
               /\ inventories' = inventories
               /\ topicReserved' = topicReserved
               /\ topicFailed' \in {topicFailed,
                                    Append(topicFailed,
                                           [orderId |-> event.OrderID, status |-> "FAILED",
                                            message |-> "Product not found"])}]_vars

C9_Witness ==
    \E k \in Consumed :
        /\ StepsOf(k, {"selectNoRow"}) # {}
        /\ \E i \in PublishedAs(k, "FAILED") : trace[i].message = "Product not found"
        /\ \E n \in 1..Len(topicFailed) :
              topicFailed[n] = [orderId |-> orders[k].orderId, status |-> "FAILED",
                                message |-> "Product not found"]

\* C10: a store-operation error during the stock read or the decrement yields
\* the FAILED outcome "transient error", never a business rejection.
C10_TransientError ==
    \A k \in Consumed :
        StepsOf(k, {"selectErr", "updateErr"}) # {} =>
            \A i \in StepsOf(k, {"pubOk"}) :
                trace[i].status = "FAILED" /\ trace[i].message = "transient error"
\* C11: an order event with a non-positive quantity yields FAILED "invalid
\* event", the store is neither read nor written for it and no RESERVED
\* outcome is published.
C11_InvalidEventRejected ==
    \A k \in Consumed :
        orders[k].quantity <= 0 =>
            /\ StepsOf(k, SelectSteps \cup {"updateOk", "updateErr"}) = {}
            /\ PublishedAs(k, "RESERVED") = {}
            /\ \A i \in StepsOf(k, {"pubOk"}) : trace[i].message = "invalid event"

\* C12: a message whose payload does not deserialize is skipped: its only
\* step is the skip (it is read once, the store is not read or written, no
\* outcome is published) and the loop is back at reading the next message.
C12_MalformedSkipped ==
    /\ [](\A k \in 1..offset :
             ~orders[k].wellFormed =>
                 /\ Cardinality({i \in Idx : trace[i].k = k}) = 1
                 /\ StepsOf(k, {"skip"}) # {})
    /\ [][(pc = "read" /\ offset' = offset + 1 /\ ~orders[offset + 1].wellFormed)
            => /\ pc' = "read"
               /\ committed' = offset + 1
               /\ inventories' = inventories
               /\ topicReserved' = topicReserved
               /\ topicFailed' = topicFailed]_vars

\* a malformed message was skipped and the message after it was processed
C12_Witness ==
    /\ offset = 2
    /\ ~orders[1].wellFormed
    /\ StepsOf(1, {"skip"}) # {}
    /\ StepsOf(2, {"pubOk"}) # {}
    /\ Len(topicReserved) + Len(topicFailed) = 1

PubReserved(e) == e.step = "pubOk" /\ e.status = "RESERVED"
PubFailed(e) == e.step = "pubOk" /\ e.status = "FAILED"

\* the records the successful publishes of the history put on a topic
Records(steps) ==
    [n \in 1..Len(steps) |->
        [orderId |-> orders[steps[n].k].orderId, status |-> steps[n].status,
         message |-> steps[n].message]]

\* C13: the reserved topic holds the RESERVED outcomes and the failed topic
\* the FAILED outcomes, one record per publish, each with the orderID of the
\* event that was being processed.
C13_OutcomeRouting ==
    /\ \A n \in 1..Len(topicReserved) : topicReserved[n].status = "RESERVED"
    /\ \A n \in 1..Len(topicFailed) : topicFailed[n].status = "FAILED"
    /\ topicReserved = Records(SelectSeq(trace, PubReserved))
    /\ topicFailed = Records(SelectSeq(trace, PubFailed))

C13_Witness ==
    /\ Len(topicReserved) >= 1
    /\ Len(topicFailed) >= 1

\* C14: a failed publish is reported to the loop: after a publish call that
\* appended nothing, the loop's own state (position, locals, offsets) is not
\* the state a successful publish leaves it in.
C14_PublishFailureReported ==
    [][(/\ pc = "publish"
        /\ pc' # "publish"
        /\ topicReserved' = topicReserved
        /\ topicFailed' = topicFailed)
         => <<pc', event', quantity', pending', offset', committed'>>
              # <<"read", NoEvent, 0, NoPending, offset, committed>>]_vars
\* C15: a successful reservation updates both the quantity and the updatedAt
\* of the product's row, and a failed reservation changes neither.
C15_ReservationTouchesUpdatedAt ==
    [][(pc \in {"select", "update"} /\ pc' = "publish")
         => IF pending'.Status = "RESERVED"
            THEN /\ inventories'[event.ProductID]
                      = inventories[event.ProductID] - event.Quantity
                 /\ updated_at'[event.ProductID] = Now
            ELSE /\ inventories' = inventories
                 /\ updated_at' = updated_at]_vars
\* C16: every response, for any method and path, carries
\* Access-Control-Allow-Origin: *, and every OPTIONS request is answered with
\* 204 without reaching a CRUD handler.
C16_CorsOnEveryResponse ==
    [][\A req \in Requests :
          ServeHTTP(req) =>
              LET r == Response(req.method, req.path, req.body, inventories) IN
              /\ r.cors = "*"
              /\ req.method = "OPTIONS" => (r.status = 204 /\ r.handler \notin CrudHandlers)]_vars
\* C17: the consumer loop has no terminal state: unless it waits at the end of
\* the log, a step of the loop is always possible; a read error leads back to
\* the same read; and the step that ends the handling of a message (skip, or
\* the publish call returning with or without an error) leads back to the read.
C17_NoTerminalState ==
    /\ [](\/ pc = "read" /\ offset = Len(orders)
          \/ ENABLED (\/ ReadMessage(FALSE) \/ SelectQuantity(FALSE)
                      \/ ExecUpdate(FALSE) \/ WriteMessages(FALSE)))
    /\ [][(pc = "read" /\ faults' = faults + 1)
            => (pc' = "read" /\ offset' = offset /\ committed' = committed)]_vars
    /\ [][(trace' # trace /\ trace'[Len(trace')].step \in {"skip", "pubOk", "pubErr"})
            => pc' = "read"]_vars

\* a read failed, and the loop went on to skip one message and publish the
\* outcome of the next
C17_Witness ==
    /\ faults = 1
    /\ {i \in Idx : trace[i].step \in {"selectErr", "updateErr", "pubErr"}} = {}
    /\ pc = "read"
    /\ offset = 2
    /\ \E k \in 1..2 : StepsOf(k, {"skip"}) # {}
    /\ \E k \in 1..2 : StepsOf(k, {"pubOk"}) # {}

\* C18: an iteration of the loop writes the store at most once, only the row
\* of the event's productID, and only in the step of the successful UPDATE; an
\* iteration that ends with "Product not found" or "Not enough stock" writes
\* nothing.
C18_WritesOnlyEventRow ==
    /\ [][trace' # trace =>
            /\ DOMAIN inventories' = DOMAIN inventories
            /\ updated_at' = updated_at
            /\ IF trace'[Len(trace')].step = "updateOk"
               THEN \A p \in DOMAIN inventories \ {event.ProductID} :
                        inventories'[p] = inventories[p]
               ELSE inventories' = inventories]_vars
    /\ [](\A k \in Consumed :
            /\ Cardinality(StepsOf(k, {"updateOk"})) <= 1
            /\ \A i \in StepsOf(k, {"pubOk", "pubErr"}) :
                   trace[i].message \in {"Product not found", "Not enough stock"}
                       => StepsOf(k, {"updateOk"}) = {})

\* the table holds two rows and the loop has decremented one
C18_Witness ==
    /\ DOMAIN inventories = Products
    /\ \E k \in Consumed : Decremented(k) /\ Finished(k)

\* C19: the successful UPDATE of the loop subtracts the event's amount from the
\* quantity the row holds when the statement runs, whatever the loop scanned
\* before: a quantity V written over HTTP between the SELECT and the UPDATE
\* becomes V - n.
C19_RelativeDecrement ==
    [][(trace' # trace /\ trace'[Len(trace')].step = "updateOk")
         => inventories'[event.ProductID]
              = inventories[event.ProductID] - event.Quantity]_vars

\* the UPDATE has run on a row that an HTTP write changed after the SELECT
C19_Witness ==
    /\ pc = "publish"
    /\ trace[Len(trace)].step = "updateOk"
    /\ httpCount = 1
    /\ inventories[event.ProductID] # quantity - event.Quantity
====
